---- MODULE Spec2Model ----
(***************************************************************************)
(* Model of the forecast engine of the CO2 emission dashboard              *)
(* (src/src/pages/timeseries/forecast.py, forecast_series).                *)
(*                                                                         *)
(* A number is a rational <<numerator, denominator>> with a positive       *)
(* denominator; the missing value (NaN) is <<0, 0>>.  The statistical      *)
(* library (SARIMAX construction, fit, get_forecast, conf_int) is an       *)
(* oracle fixed together with the data: whether construction/fit raises,   *)
(* whether producing the forecast raises, and the numbers it predicts for  *)
(* each horizon step.                                                      *)
(***************************************************************************)
EXTENDS Integers, Sequences, FiniteSets, TLC

\* ---------------------------------------------------------------- bounds
MaxLen == 3
NumYears == 3
MaxSteps == 2
NumCountries == 2
MaxMinPoints == 2
NumTopCountries == 11
MaxRows == 2
MaxMapRows == 2

FirstYear == 2000
LastYear == 2022
YearPool == FirstYear .. (FirstYear + NumYears - 1)
ValuePool == {-4, 0, 5}

\* ------------------------------------------------------- numbers and NaN
NaN == <<0, 0>>
Num(v) == <<v, 1>>
isna(c) == c[2] = 0
notna(c) == c[2] # 0

Abs(n) == IF n < 0 THEN -n ELSE n
RatAbs(a) == <<Abs(a[1]), a[2]>>
RatSub(a, b) == <<a[1] * b[2] - b[1] * a[2], a[2] * b[2]>>
RatAdd(a, b) == <<a[1] * b[2] + b[1] * a[2], a[2] * b[2]>>
RatTenth(a) == <<a[1], 10 * a[2]>>
RatEq(a, b) == notna(a) /\ notna(b) /\ a[1] * b[2] = b[1] * a[2]
RatLe(a, b) == notna(a) /\ notna(b) /\ a[1] * b[2] <= b[1] * a[2]

InputCells == {NaN} \cup {Num(v) : v \in ValuePool}

\* ------------------------------------------------------ sequence helpers
Range(s) == {s[i] : i \in DOMAIN s}

SetMax(S) == CHOOSE m \in S : \A x \in S : x <= m
SetMin(S) == CHOOSE m \in S : \A x \in S : m <= x

RECURSIVE SortedSeq(_)
SortedSeq(S) == IF S = {} THEN <<>>
                ELSE <<SetMin(S)>> \o SortedSeq(S \ {SetMin(S)})

RECURSIVE SeqSum(_)
SeqSum(s) == IF s = <<>> THEN 0 ELSE Head(s)[1] + SeqSum(Tail(s))

Injective(s) == \A i, j \in DOMAIN s : s[i] = s[j] => i = j

\* ---------------------------------------------------------------- state
VARIABLES years, values, steps, fitRaises, forecastRaises, modelOut,
          pc, outcome, path, table, prev, fitInput, columns

engineVars == <<years, values, steps, fitRaises, forecastRaises, modelOut,
                pc, outcome, path, table, prev, fitInput, columns>>

\* generate_forecasts: the dataset and the arguments, the files under data/,
\* the position in the loops, and a record of what the run did
VARIABLES dataset, metrics, min_points, run_steps, files,
          bpc, mi, ci, out_rows,
          calls, returned, failures, written, visited

batchVars == <<dataset, metrics, min_points, run_steps, files,
               bpc, mi, ci, out_rows,
               calls, returned, failures, written, visited>>

\* render_country_page: the selected country, the outcome of the two
\* on-demand forecasts, the position in the page, what the page shows
VARIABLES sel_country, globalRaises, gdpRaises, ppc, rendered, messages,
          f_country, co2_traces

pageVars == <<sel_country, globalRaises, gdpRaises, ppc, rendered, messages,
              f_country, co2_traces>>

\* a sequence of engine calls: the arguments as the caller passed them to
\* the call in progress, and the finished calls with what they returned
VARIABLES args, log

callVars == <<args, log>>

\* top10_by_co2_metric: the frame and the arguments, the position, the figure
VARIABLES top_df, top_years, continent_filter, top_metric, tpc, fig

topVars == <<top_df, top_years, continent_filter, top_metric, tpc, fig>>

\* load_data: the two files read, the position, the frame returned
VARIABLES owid, mapping, lpc, merged

loadVars == <<owid, mapping, lpc, merged>>

otherVars == <<batchVars, pageVars, callVars, topVars, loadVars>>

vars == <<engineVars, otherVars>>

\* -------------------------------------------------- forecast_series parts
\* series.dropna(): the positions of the input holding a non-missing value
dropna(vs) == {i \in DOMAIN vs : notna(vs[i])}

\* series_clean as the sequence of its values, in input order
series_clean(vs) == LET F[i \in 0 .. Len(vs)] ==
                          IF i = 0 THEN <<>>
                          ELSE IF notna(vs[i]) THEN Append(F[i - 1], vs[i])
                          ELSE F[i - 1]
                    IN F[Len(vs)]

\* variant: raises as soon as one value is missing
empty_any_missing(vs) == vs = <<>> \/ \E i \in DOMAIN vs : isna(vs[i])

\* series_clean.empty
empty(vs) == dropna(vs) = {}

\* variant: the largest year of the whole index, missing values included
last_year_of_index(ys, vs) == SetMax(Range(ys))

\* int(series_clean.index.max())
last_year(ys, vs) == SetMax({ys[i] : i \in dropna(vs)})

\* variant: the horizon starts at last_year itself
forecast_years_from_last(ly, k) == [h \in 1 .. k |-> ly + h - 1]

\* np.arange(last_year + 1, last_year + 1 + steps)
forecast_years(ly, k) == [h \in 1 .. k |-> ly + h]

\* variant: the missing entries count in the denominator of the mean
mean_val_all(vs) == <<SeqSum(series_clean(vs)), Len(vs)>>

\* series_clean.mean()
mean_val(vs) == <<SeqSum(series_clean(vs)), Len(series_clean(vs))>>

\* np.full(steps, mean_val)
preds(vs, k) == [h \in 1 .. k |-> mean_val(vs)]

\* variant: 90% of the value, without the absolute value
lower_no_abs(p) == [h \in DOMAIN p |-> RatSub(p[h], RatTenth(p[h]))]

\* preds - 0.1 * np.abs(preds)
lower(p) == [h \in DOMAIN p |-> RatSub(p[h], RatTenth(RatAbs(p[h])))]

\* preds + 0.1 * np.abs(preds)
upper(p) == [h \in DOMAIN p |-> RatAdd(p[h], RatTenth(RatAbs(p[h])))]

\* variant: the forecast years are appended to the index, a label already
\* there is repeated
index_append(ys, fy) == SortedSeq(Range(ys)) \o
                        [h \in DOMAIN fy |-> fy[h]]

\* variant: the labels in the order of the input, the new forecast years
\* after them
index_unsorted(ys, fy) == ys \o SortedSeq(Range(fy) \ Range(ys))

\* series.index.union(pred_index): sorted, every label once
index_union(ys, fy) == SortedSeq(Range(ys) \cup Range(fy))

\* variant: values aligned by position in the sorted index, not by label
reindex_positional(ys, vs, yr) ==
    LET k == 1 + Cardinality({i \in DOMAIN ys : ys[i] < yr})
    IN IF (\E i \in DOMAIN ys : ys[i] = yr) /\ k \in DOMAIN vs THEN vs[k] ELSE NaN

\* series.reindex(index): the value at a label, NaN for a label not in series
reindex(ys, vs, yr) == IF \E i \in DOMAIN ys : ys[i] = yr
                       THEN vs[CHOOSE i \in DOMAIN ys : ys[i] = yr]
                       ELSE NaN

\* the frame before the forecast columns are filled: y from the full series
\* (missing values included), the three forecast columns NaN
frame(ys, vs, fy) ==
    LET idx == index_union(ys, fy)
    IN [r \in DOMAIN idx |-> [year |-> idx[r], y |-> reindex(ys, vs, idx[r]),
                              y_pred |-> NaN, y_lower |-> NaN, y_upper |-> NaN]]

\* variant: the forecast columns are filled one after the other and the
\* bounds are forgotten
fill_pred_only(df, fy, p, lo, up) ==
    [r \in DOMAIN df |->
        IF \E h \in DOMAIN fy : fy[h] = df[r].year
        THEN LET h == CHOOSE h \in DOMAIN fy : fy[h] = df[r].year
             IN [df[r] EXCEPT !.y_pred = p[h]]
        ELSE df[r]]

\* df.loc[pred_index, [...]] = ... : label-based assignment of the forecast
\* columns on the rows of the forecast years, followed by reset_index()
fill(df, fy, p, lo, up) ==
    [r \in DOMAIN df |->
        IF \E h \in DOMAIN fy : fy[h] = df[r].year
        THEN LET h == CHOOSE h \in DOMAIN fy : fy[h] = df[r].year
             IN [df[r] EXCEPT !.y_pred = p[h], !.y_lower = lo[h], !.y_upper = up[h]]
        ELSE df[r]]

\* variant: the full series, missing values included, is handed to the model
fit_input_full(ys, vs) == [i \in DOMAIN vs |-> <<ys[i], vs[i]>>]

\* SARIMAX(series_clean, ...): the (year, value) pairs handed to the model
fit_input(ys, vs) ==
    LET F[i \in 0 .. Len(vs)] ==
            IF i = 0 THEN <<>>
            ELSE IF notna(vs[i]) THEN Append(F[i - 1], <<ys[i], vs[i]>>)
            ELSE F[i - 1]
    IN F[Len(vs)]

\* variant: the index keeps its default name after reset_index()
fallback_columns_unnamed == <<"index", "y", "y_pred", "y_lower", "y_upper">>

\* pd.DataFrame({"y": ..., "y_pred": ..., "y_lower": ..., "y_upper": ...})
\* indexed by "year", then reset_index()
fallback_columns == <<"year", "y", "y_pred", "y_lower", "y_upper">>

\* result["y"], result["y_pred"], result["y_lower"], result["y_upper"] on an
\* index named "year", then reset_index().rename(columns={"index": "year"})
model_columns == <<"year", "y", "y_pred", "y_lower", "y_upper">>

\* the table of the except branch
fallback_table(ys, vs, k) ==
    LET fy == forecast_years(last_year(ys, vs), k)
        p  == preds(vs, k)
    IN fill(frame(ys, vs, fy), fy, p, lower(p), upper(p))

\* the table built from the fitted model's forecast and confidence interval
model_table(ys, vs, k, out) ==
    LET fy == forecast_years(last_year(ys, vs), k)
    IN fill(frame(ys, vs, fy), fy,
            [h \in 1 .. k |-> out[h][1]],
            [h \in 1 .. k |-> out[h][2]],
            [h \in 1 .. k |-> out[h][3]])

\* ------------------------------------------------------- library oracle
ModelTriples == {<<Num(7), Num(6), Num(8)>>, <<Num(-2), Num(-3), Num(-1)>>}
NoModel == [h \in 1 .. MaxSteps |-> <<NaN, NaN, NaN>>]

NoTable == <<>>
NoCall == [outcome |-> "none", path |-> "none", table |-> NoTable, steps |-> 0,
           columns |-> <<>>]

\* ------------------------------------------------- generate_forecasts parts
\* sorted(df["country"].dropna().unique())
countries == [i \in 1 .. NumCountries |-> i]

\* cdf["year"] after sort_values("year"): every country has the same years
batch_years == <<FirstYear, FirstYear + 1>>

\* the numeric columns of the dataset; any other requested metric is absent
DataMetrics == {"co2", "gdp"}
RequestLists == {<<"co2", "gdp">>, <<"foo", "co2">>, <<"gdp">>}
FileKeys == {"co2", "gdp", "foo", "global_co2"}

\* a column of one country: some leading years observed, the later ones missing
SeriesShapes == {[i \in DOMAIN batch_years |-> IF i <= k THEN Num(5) ELSE NaN] :
                    k \in 0 .. Len(batch_years)}
Datasets == {d \in [1 .. NumCountries -> [DataMetrics -> SeriesShapes]] :
                \A c \in 1 .. NumCountries : \A i \in DOMAIN batch_years : notna(d[c]["gdp"][i])}

\* cdf["iso_code"].dropna().unique()[0]
iso_of(c) == <<"iso", c>>

\* the default of the order argument of forecast_series
default_order == <<1, 1, 1>>

\* the library's behaviour in one engine call of the batch job: whether the
\* fit raises is fixed for the run, whether the forecast raises is open
EngineOracles(fr) == IF fr THEN {[fit |-> "raise", forecast |-> "ok"]}
                     ELSE {[fit |-> "ok", forecast |-> "ok"],
                           [fit |-> "ok", forecast |-> "raise"]}
batch_model_out == [h \in 1 .. MaxSteps |-> <<Num(7), Num(6), Num(8)>>]

\* forecast_series as one call
forecast_series(ys, vs, k, o) ==
    IF empty(vs) THEN [outcome |-> "NoDataError", table |-> NoTable]
    ELSE IF o.fit = "raise"
         THEN [outcome |-> "returned", table |-> fallback_table(ys, vs, k)]
    ELSE IF o.forecast = "raise" THEN [outcome |-> "OtherError", table |-> NoTable]
    ELSE [outcome |-> "returned", table |-> model_table(ys, vs, k, batch_model_out)]

\* values.dropna().shape[0]
non_null(vs) == Cardinality(dropna(vs))

\* variant: the engine is called for every column that exists
should_call_any(d, m, c, mp) == m \in DataMetrics

\* variant: the threshold is a constant, the argument is ignored
should_call_fixed(d, m, c, mp) == m \in DataMetrics /\ non_null(d[c][m]) >= 1

\* lines 62-70: the engine is called when the column exists and holds at
\* least min_points non-missing values
should_call(d, m, c, mp) == m \in DataMetrics /\ non_null(d[c][m]) >= mp

\* variant: the identifiers of the first country on every frame
attach_first(fdf, c, m) ==
    [r \in DOMAIN fdf |->
        [year |-> fdf[r].year, y |-> fdf[r].y, y_pred |-> fdf[r].y_pred,
         y_lower |-> fdf[r].y_lower, y_upper |-> fdf[r].y_upper,
         country |-> countries[1], iso_code |-> iso_of(countries[1]), metric |-> m]]

\* lines 79-83: fdf["country"], fdf["iso_code"], fdf["metric"]
attach(fdf, c, m) ==
    [r \in DOMAIN fdf |->
        [year |-> fdf[r].year, y |-> fdf[r].y, y_pred |-> fdf[r].y_pred,
         y_lower |-> fdf[r].y_lower, y_upper |-> fdf[r].y_upper,
         country |-> c, iso_code |-> iso_of(c), metric |-> m]]

\* pd.concat(out_rows, ignore_index=True)
RECURSIVE concat(_)
concat(frames) == IF frames = <<>> THEN <<>> ELSE Head(frames) \o concat(Tail(frames))

\* variant: the total of the first country only
global_values_first(d) == [i \in DOMAIN batch_years |->
                             IF notna(d[1]["co2"][i]) THEN d[1]["co2"][i] ELSE Num(0)]

\* df.groupby("year")["co2"].sum(): the sum of the non-missing values of a
\* year, 0 when every value of the year is missing
global_values(d) ==
    LET S[c \in 0 .. NumCountries, i \in DOMAIN batch_years] ==
            IF c = 0 THEN 0
            ELSE S[c - 1, i] + (IF notna(d[c]["co2"][i]) THEN d[c]["co2"][i][1] ELSE 0)
    IN [i \in DOMAIN batch_years |-> Num(S[NumCountries, i])]

\* gf["metric"] = "co2_global"
attach_global(gf) ==
    [r \in DOMAIN gf |->
        [year |-> gf[r].year, y |-> gf[r].y, y_pred |-> gf[r].y_pred,
         y_lower |-> gf[r].y_lower, y_upper |-> gf[r].y_upper,
         metric |-> "co2_global"]]

NoFile == [exists |-> FALSE, rows |-> <<>>]
\* what an earlier run left in a file
StaleFile == [exists |-> TRUE,
              rows |-> <<[year |-> FirstYear - 1, y |-> Num(1), y_pred |-> NaN,
                          y_lower |-> NaN, y_upper |-> NaN, country |-> 0,
                          iso_code |-> iso_of(0), metric |-> "earlier run"]>>]

\* the batch job is not running
BatchIdle ==
    /\ dataset = <<>>
    /\ metrics = <<>>
    /\ min_points = 0
    /\ run_steps = 0
    /\ files = [k \in FileKeys |-> NoFile]
    /\ bpc = "idle"
    /\ mi = 0
    /\ ci = 0
    /\ out_rows = <<>>
    /\ calls = {}
    /\ returned = {}
    /\ failures = {}
    /\ written = {}
    /\ visited = {}

\* ------------------------------------------------ render_country_page parts
\* the page is not being rendered
PageIdle ==
    /\ sel_country = 0
    /\ globalRaises = FALSE
    /\ gdpRaises = FALSE
    /\ ppc = "idle"
    /\ rendered = {}
    /\ messages = {}
    /\ f_country = <<>>
    /\ co2_traces = {}

\* the co2 file as generate_forecasts leaves it when the forecasts of the
\* countries cs (in ascending order) succeeded on the fallback path with
\* horizon k; with horizon 0 the file holds the observed rows only
RECURSIVE precomputed_rows(_, _, _)
precomputed_rows(d, cs, k) ==
    IF cs = {} THEN <<>>
    ELSE LET c == SetMin(cs)
         IN attach(fallback_table(batch_years, d[c]["co2"], k), c, "co2")
              \o precomputed_rows(d, cs \ {c}, k)

PageFiles(d) ==
    {[k \in FileKeys |-> NoFile]} \cup
    {[k \in FileKeys |-> IF k = "co2"
                         THEN [exists |-> TRUE, rows |-> precomputed_rows(d, cs, h)]
                         ELSE NoFile] :
        cs \in SUBSET {c \in 1 .. NumCountries : ~empty(d[c]["co2"])},
        h \in {0, 1}}

\* global_forecast_plot(df, metric="co2", steps=steps): an on-demand forecast
\* of the global total, a figure unless the engine or the plot raises
global_forecast_plot(raises) == IF raises THEN "raised" ELSE "figure"

\* country_gdp_forecast_plot(df, sel_country, steps=steps): an on-demand
\* forecast of the country's GDP, a figure unless the engine or the plot raises
country_gdp_forecast_plot(raises) == IF raises THEN "raised" ELSE "figure"

\* the greatest common divisor of two naturals, not both 0
RECURSIVE GCD(_, _)
GCD(a, b) == IF b = 0 THEN a ELSE GCD(b, a % b)

\* a number as the decimal text of a CSV field: one text per value, whatever
\* the fraction it was computed as
decimal(c) == LET g == GCD(Abs(c[1]), c[2]) IN <<c[1] \div g, c[2] \div g>>

\* fdf.to_csv(index=False): a missing value is an empty field, a number its
\* decimal text, the identifiers are written as they are
to_csv(rows) ==
    LET field(c) == IF isna(c) THEN [empty |-> TRUE, text |-> <<0, 1>>]
                    ELSE [empty |-> FALSE, text |-> decimal(c)]
    IN [r \in DOMAIN rows |->
          [year |-> rows[r].year, y |-> field(rows[r].y),
           y_pred |-> field(rows[r].y_pred), y_lower |-> field(rows[r].y_lower),
           y_upper |-> field(rows[r].y_upper), country |-> rows[r].country,
           iso_code |-> rows[r].iso_code, metric |-> rows[r].metric]]

\* variant: an empty field is read as 0
read_csv_blank_as_zero(lines) ==
    LET cell(f) == IF f.empty THEN Num(0) ELSE f.text
    IN [r \in DOMAIN lines |->
          [year |-> lines[r].year, y |-> cell(lines[r].y),
           y_pred |-> cell(lines[r].y_pred), y_lower |-> cell(lines[r].y_lower),
           y_upper |-> cell(lines[r].y_upper), country |-> lines[r].country,
           iso_code |-> lines[r].iso_code, metric |-> lines[r].metric]]

\* pd.read_csv("data/forecasts_co2.csv"): an empty field is a missing value,
\* a decimal text the number it denotes
read_csv(lines) ==
    LET cell(f) == IF f.empty THEN NaN ELSE f.text
    IN [r \in DOMAIN lines |->
          [year |-> lines[r].year, y |-> cell(lines[r].y),
           y_pred |-> cell(lines[r].y_pred), y_lower |-> cell(lines[r].y_lower),
           y_upper |-> cell(lines[r].y_upper), country |-> lines[r].country,
           iso_code |-> lines[r].iso_code, metric |-> lines[r].metric]]

\* fdf[(fdf["country"] == sel_country) & (fdf["metric"] == "co2")]
\* .sort_values("year")
lookup(rows, c) ==
    LET keep == {r \in DOMAIN rows : rows[r].country = c /\ rows[r].metric = "co2"}
        yrs  == SortedSeq({rows[r].year : r \in keep})
    IN [i \in DOMAIN yrs |-> rows[CHOOSE r \in keep : rows[r].year = yrs[i]]]

\* ---------------------------------------------------- sequences of calls
NoArgs == [years |-> <<>>, values |-> <<>>, steps |-> 0, order |-> <<>>]

\* no sequence of calls is being followed
CallsIdle ==
    /\ args = NoArgs
    /\ log = <<>>

\* an order other than the default one
other_order == <<2, 1, 0>>

\* ------------------------------------------------------------ the overview
NoFigure == [countries |-> <<>>, metric_vals |-> <<>>, gdp_vals |-> <<>>,
             select_col |-> "none"]

\* head(10)
TopN == 10

\* the continent of a country of the frame
continent_of(c) == IF c % 2 = 1 THEN "Asia" ELSE "Europe"

\* the population column of a country over the two years of the frame: in
\* the order of the CO2 totals, in the opposite order, or in the order of the
\* CO2 totals with the population of one country missing
PopulationColumns ==
    {[c \in 1 .. NumTopCountries |-> <<Num(c), Num(c)>>],
     [c \in 1 .. NumTopCountries |-> <<Num(NumTopCountries + 1 - c),
                                       Num(NumTopCountries + 1 - c)>>]} \cup
    {[c \in 1 .. NumTopCountries |-> IF c = j THEN <<NaN, NaN>> ELSE <<Num(c), Num(c)>>] :
        j \in 1 .. NumTopCountries}

\* the frames handed to the chart: one row per country and year, the CO2 of a
\* country growing with its number, no two aggregated values equal
TopFrames ==
    {[c \in 1 .. NumTopCountries |->
        [continent_name |-> continent_of(c),
         co2 |-> <<Num(c * c), Num(2 * c * c)>>,
         gdp |-> <<Num(c), Num(c + 1)>>,
         population |-> pop[c]]] : pop \in PopulationColumns}

\* the years argument: None, one int, or a list of ints
YearArgs == {[kind |-> "None", val |-> <<>>],
             [kind |-> "int", val |-> <<FirstYear>>],
             [kind |-> "list", val |-> <<FirstYear, FirstYear + 1>>],
             [kind |-> "list", val |-> <<FirstYear - 1>>]}

\* _normalize_years: None stays None, an int becomes a list of one
normalize_years(ya) == IF ya.kind = "None" THEN [none |-> TRUE, list |-> <<>>]
                       ELSE [none |-> FALSE, list |-> ya.val]

\* the columns of agg after the per-capita metric is recomputed
agg_columns == {"country", "co2", "gdp", "population", "co2_per_capita"}

\* df[df["year"].isin(years_list)] and df_sel["continent_name"].isin(...):
\* the (country, year position) pairs of the rows kept
df_sel(d, ya, cf) ==
    LET yl == normalize_years(ya)
    IN {<<c, i>> \in (DOMAIN d) \X (DOMAIN batch_years) :
           /\ yl.none \/ batch_years[i] \in Range(yl.list)
           /\ cf = {} \/ d[c].continent_name \in cf}

\* groupby("country").agg("sum") of one column: missing values count as 0
agg_sum(d, sel, c, col) ==
    LET S[i \in 0 .. Len(batch_years)] ==
            IF i = 0 THEN 0
            ELSE S[i - 1] + (IF <<c, i>> \in sel /\ notna(d[c][col][i])
                             THEN d[c][col][i][1] ELSE 0)
    IN S[Len(batch_years)]

\* the aggregated frame: one row per country that kept a row
agg(d, sel) ==
    [c \in {x \in DOMAIN d : \E i \in DOMAIN batch_years : <<x, i>> \in sel} |->
        LET co2 == agg_sum(d, sel, c, "co2")
            pop == agg_sum(d, sel, c, "population")
        IN [co2 |-> Num(co2),
            gdp |-> Num(agg_sum(d, sel, c, "gdp")),
            population |-> Num(pop),
            co2_per_capita |-> IF pop # 0 THEN <<co2, pop>> ELSE NaN]]

\* select_col = metric if metric in agg.columns else "co2"
select_col(m) == IF m \in agg_columns THEN m ELSE "co2"

\* sort_values(col, ascending=False).head(n) over the countries cs: the
\* countries by decreasing value (no two values are equal in the frames)
RECURSIVE sort_head(_, _, _, _)
sort_head(a, cs, col, n) ==
    IF cs = {} \/ n = 0 THEN <<>>
    ELSE LET best == CHOOSE c \in cs :
                        \A x \in cs : RatLe(a[x][col], a[c][col]) /\
                                      (RatEq(a[x][col], a[c][col]) => c <= x)
         IN <<best>> \o sort_head(a, cs \ {best}, col, n - 1)

\* top10_by_co2_metric up to the traces of the figure; None is NoFigure
top10_by_co2_metric(d, ya, cf, m) ==
    LET sel  == df_sel(d, ya, cf)
        a    == agg(d, sel)
        col  == select_col(m)
        kept == {c \in DOMAIN a : notna(a[c][col])}
        top  == sort_head(a, kept, col, TopN)
    IN IF sel = {} \/ kept = {} THEN NoFigure
       ELSE [countries |-> top,
             metric_vals |-> [r \in DOMAIN top |->
                                IF m \in agg_columns
                                THEN (IF notna(a[top[r]][m]) THEN a[top[r]][m] ELSE Num(0))
                                ELSE Num(0)],
             gdp_vals |-> [r \in DOMAIN top |-> a[top[r]].gdp],
             select_col |-> col]

\* no top-10 chart is being built
TopIdle ==
    /\ top_df = <<>>
    /\ top_years = <<>>
    /\ continent_filter = {}
    /\ top_metric = "none"
    /\ tpc = "idle"
    /\ fig = NoFigure

\* -------------------------------------------------------------- load_data
\* a missing cell of a text column
NA == "<NA>"

\* the cells of the iso_code and year columns of owid-co2-data.csv, and the
\* country a row is about (aggregate rows have no ISO code)
IsoCells == {"RUS", "FRA", "", NA}
YearCells == {"1999", "2000", "2022", "2023", "n/a"}
country_of(iso) == CASE iso = "RUS" -> "Russia"
                     [] iso = "FRA" -> "France"
                     [] OTHER -> "World"

OwidRows == {[country |-> country_of(iso), iso_code |-> iso, year |-> y] :
                iso \in IsoCells, y \in YearCells}

\* the rows of the continent mapping file, a code possibly listed twice
MapRows == {[three_letter_code |-> c, continent_name |-> k] :
               c \in {"RUS", "FRA"}, k \in {"Europe", "Asia"}}

OVERRIDES == [RUS |-> "Europe", AZE |-> "Asia", ARM |-> "Asia", CYP |-> "Europe",
              GEO |-> "Europe", KAZ |-> "Asia", UMI |-> "Oceania", TUR |-> "Europe"]

\* lines 34-36: continent_name of the rows whose code is a key of OVERRIDES
apply_overrides(ms) ==
    [i \in DOMAIN ms |->
        IF ms[i].three_letter_code \in DOMAIN OVERRIDES
        THEN [ms[i] EXCEPT !.continent_name = OVERRIDES[ms[i].three_letter_code]]
        ELSE ms[i]]

\* variant: every row of the mapping file is kept
keep_duplicates(ms) == ms

\* drop_duplicates(subset=["three_letter_code"]): the first row of every code
drop_duplicates(ms) ==
    LET F[i \in 0 .. Len(ms)] ==
            IF i = 0 THEN <<>>
            ELSE IF \E j \in 1 .. (i - 1) :
                       ms[j].three_letter_code = ms[i].three_letter_code
                 THEN F[i - 1]
                 ELSE Append(F[i - 1], ms[i])
    IN F[Len(ms)]

\* the rows a left row gives in a left merge: one per matching mapping row,
\* in the order of the mapping, or one without continent when none matches
merge_row(df, r, ms) ==
    LET F[j \in 0 .. Len(ms)] ==
            IF j = 0 THEN <<>>
            ELSE IF ms[j].three_letter_code = df[r].iso_code
                 THEN Append(F[j - 1],
                             [row |-> r, country |-> df[r].country,
                              iso_code |-> df[r].iso_code, year |-> df[r].year,
                              continent_name |-> ms[j].continent_name])
                 ELSE F[j - 1]
    IN IF F[Len(ms)] = <<>>
       THEN <<[row |-> r, country |-> df[r].country, iso_code |-> df[r].iso_code,
               year |-> df[r].year, continent_name |-> NA]>>
       ELSE F[Len(ms)]

\* df.merge(countries, left_on="iso_code", right_on="three_letter_code",
\* how="left"): the left rows in their order
merge(df, ms) ==
    LET F[r \in 0 .. Len(df)] ==
            IF r = 0 THEN <<>> ELSE F[r - 1] \o merge_row(df, r, ms)
    IN F[Len(df)]

\* merged["continent_name"].fillna("Other")
fillna_other(rows) ==
    [i \in DOMAIN rows |->
        IF rows[i].continent_name = NA
        THEN [rows[i] EXCEPT !.continent_name = "Other"] ELSE rows[i]]

\* replace("", pd.NA) on iso_code, then dropna(subset=["iso_code"])
drop_without_iso(rows) ==
    LET F[i \in 0 .. Len(rows)] ==
            IF i = 0 THEN <<>>
            ELSE IF rows[i].iso_code \in {"", NA} THEN F[i - 1]
                 ELSE Append(F[i - 1], rows[i])
    IN F[Len(rows)]

\* pd.to_numeric(cell, errors="coerce")
to_numeric(cell) == CASE cell = "1999" -> Num(1999)
                      [] cell = "2000" -> Num(2000)
                      [] cell = "2022" -> Num(2022)
                      [] cell = "2023" -> Num(2023)
                      [] OTHER -> NaN

\* merged["year"] = pd.to_numeric(...); merged[merged["year"].between(2000, 2022)]
year_filter(rows) ==
    LET F[i \in 0 .. Len(rows)] ==
            IF i = 0 THEN <<>>
            ELSE LET y == to_numeric(rows[i].year)
                 IN IF notna(y) /\ FirstYear <= y[1] /\ y[1] <= LastYear
                    THEN Append(F[i - 1], [rows[i] EXCEPT !.year = y])
                    ELSE F[i - 1]
    IN F[Len(rows)]

\* load_data as one call
load_data(df, ms) ==
    year_filter(drop_without_iso(fillna_other(
        merge(df, drop_duplicates(apply_overrides(ms))))))

\* load_data is not running
LoadIdle ==
    /\ owid = <<>>
    /\ mapping = <<>>
    /\ lpc = "idle"
    /\ merged = <<>>

\* ----------------------------------------------------------------- Init
Init ==
    /\ \E n \in 0 .. MaxLen :
          /\ years \in [1 .. n -> YearPool]
          /\ values \in [1 .. n -> InputCells]
    /\ Injective(years)
    /\ steps \in 1 .. MaxSteps
    /\ fitRaises \in BOOLEAN
    /\ forecastRaises \in BOOLEAN
    /\ modelOut \in [1 .. MaxSteps -> ModelTriples] \cup {NoModel}
    /\ (modelOut = NoModel) <=> (fitRaises \/ forecastRaises)
    /\ fitRaises => ~forecastRaises
    /\ pc = "prepare"
    /\ outcome = "none"
    /\ path = "none"
    /\ table = NoTable
    /\ prev = NoCall
    /\ fitInput = <<>>
    /\ columns = <<>>
    /\ BatchIdle
    /\ PageIdle
    /\ CallsIdle
    /\ TopIdle
    /\ LoadIdle

\* -------------------------------------------------------------- actions
\* variant: the missing values are dropped from the caller's sequences
Prepare_in_place ==
    /\ pc = "prepare"
    /\ IF empty(values)
       THEN /\ pc' = "done"
            /\ outcome' = "NoDataError"
            /\ UNCHANGED <<years, values>>
       ELSE /\ pc' = "fit"
            /\ outcome' = outcome
            /\ years' = [i \in DOMAIN fit_input(years, values) |-> fit_input(years, values)[i][1]]
            /\ values' = series_clean(values)
    /\ UNCHANGED <<steps, fitRaises, forecastRaises, modelOut,
                   path, table, prev, fitInput, columns>>
    /\ UNCHANGED otherVars

\* lines 21-31: build the series, drop missing values, raise when none is left
Prepare ==
    /\ pc = "prepare"
    /\ IF empty(values)
       THEN /\ pc' = "done"
            /\ outcome' = "NoDataError"
       ELSE /\ pc' = "fit"
            /\ outcome' = outcome
    /\ UNCHANGED <<years, values, steps, fitRaises, forecastRaises, modelOut,
                   path, table, prev, fitInput, columns>>
    /\ UNCHANGED otherVars

\* variant: no except branch, a failed fit is carried on as if it had succeeded
Fit_without_except ==
    /\ pc = "fit"
    /\ fitInput' = fit_input(years, values)
    /\ pc' = "forecast"
    /\ UNCHANGED <<years, values, steps, fitRaises, forecastRaises, modelOut,
                   outcome, path, table, prev, columns>>
    /\ UNCHANGED otherVars

\* lines 34-37: construct and fit inside try; any exception selects the
\* except branch
Fit ==
    /\ pc = "fit"
    /\ fitInput' = fit_input(years, values)
    /\ pc' = IF fitRaises THEN "fallback" ELSE "forecast"
    /\ UNCHANGED <<years, values, steps, fitRaises, forecastRaises, modelOut,
                   outcome, path, table, prev, columns>>
    /\ UNCHANGED otherVars

\* lines 38-50: the persistence forecast
Fallback ==
    /\ pc = "fallback"
    /\ table' = fallback_table(years, values, steps)
    /\ columns' = fallback_columns
    /\ path' = "fallback"
    /\ outcome' = "returned"
    /\ pc' = "done"
    /\ UNCHANGED <<years, values, steps, fitRaises, forecastRaises, modelOut,
                   prev, fitInput>>
    /\ UNCHANGED otherVars

\* lines 53-55: get_forecast / predicted_mean / conf_int, outside the try:
\* an exception here leaves forecast_series
Forecast ==
    /\ pc = "forecast"
    /\ IF forecastRaises
       THEN /\ pc' = "done"
            /\ outcome' = "OtherError"
       ELSE /\ pc' = "assemble"
            /\ outcome' = outcome
    /\ UNCHANGED <<years, values, steps, fitRaises, forecastRaises, modelOut,
                   path, table, prev, fitInput, columns>>
    /\ UNCHANGED otherVars

\* lines 57-74: history and forecast combined
Assemble ==
    /\ pc = "assemble"
    /\ table' = model_table(years, values, steps, modelOut)
    /\ columns' = model_columns
    /\ path' = "model"
    /\ outcome' = "returned"
    /\ pc' = "done"
    /\ UNCHANGED <<years, values, steps, fitRaises, forecastRaises, modelOut,
                   prev, fitInput>>
    /\ UNCHANGED otherVars

\* a further call with the same years, values and order and one more step;
\* the library behaves on the same data as before
CallAgain ==
    /\ pc = "done"
    /\ steps < MaxSteps
    /\ prev' = [outcome |-> outcome, path |-> path, table |-> table, steps |-> steps,
                columns |-> columns]
    /\ steps' = steps + 1
    /\ pc' = "prepare"
    /\ outcome' = "none"
    /\ path' = "none"
    /\ table' = NoTable
    /\ fitInput' = <<>>
    /\ columns' = <<>>
    /\ UNCHANGED <<years, values, fitRaises, forecastRaises, modelOut>>
    /\ UNCHANGED otherVars

Next == Prepare \/ Fit \/ Fallback \/ Forecast \/ Assemble \/ CallAgain

Spec == Init /\ [][Next]_vars

\* a further call with the same years, values and steps but another order,
\* for which construction or fitting raises where it succeeded before
CallOtherOrder ==
    /\ pc = "done"
    /\ outcome = "returned"
    /\ path = "model"
    /\ prev = NoCall
    /\ prev' = [outcome |-> outcome, path |-> path, table |-> table, steps |-> steps,
                columns |-> columns]
    /\ fitRaises' = TRUE
    /\ modelOut' = NoModel
    /\ pc' = "prepare"
    /\ outcome' = "none"
    /\ path' = "none"
    /\ table' = NoTable
    /\ fitInput' = <<>>
    /\ columns' = <<>>
    /\ UNCHANGED <<years, values, steps, forecastRaises>>
    /\ UNCHANGED otherVars

NextPaths == Prepare \/ Fit \/ Fallback \/ Forecast \/ Assemble \/ CallOtherOrder

\* both outcomes of the fit on one and the same input
SpecPaths == Init /\ [][NextPaths]_vars

\* ------------------------------------------------- forecast_series, again
\* the first call of a sequence: as Init with the years in ascending order
\* and one model output, and with the caller's arguments noted
InitCalls ==
    /\ \E n \in 0 .. MaxLen :
          /\ years \in [1 .. n -> YearPool]
          /\ values \in [1 .. n -> InputCells]
    /\ Injective(years)
    /\ years = SortedSeq(Range(years))
    /\ steps \in 1 .. MaxSteps
    /\ fitRaises \in BOOLEAN
    /\ forecastRaises \in BOOLEAN
    /\ modelOut \in {batch_model_out, NoModel}
    /\ (modelOut = NoModel) <=> (fitRaises \/ forecastRaises)
    /\ fitRaises => ~forecastRaises
    /\ pc = "prepare"
    /\ outcome = "none"
    /\ path = "none"
    /\ table = NoTable
    /\ prev = NoCall
    /\ fitInput = <<>>
    /\ columns = <<>>
    /\ BatchIdle
    /\ PageIdle
    /\ args = [years |-> years, values |-> values, steps |-> steps,
               order |-> default_order]
    /\ log = <<>>
    /\ TopIdle
    /\ LoadIdle

\* the finished call, as the caller saw it, with the library's behaviour on
\* its arguments
finished_call ==
    [args |-> args, outcome |-> outcome, path |-> path, table |-> table,
     columns |-> columns,
     library |-> [fitRaises |-> fitRaises, forecastRaises |-> forecastRaises,
                  modelOut |-> modelOut]]

\* after the first call, a call with other arguments: another order (for
\* which the fit raises), another horizon, or values that are all missing
OtherCall ==
    /\ pc = "done"
    /\ log = <<>>
    /\ log' = <<finished_call>>
    /\ \/ /\ args' = [args EXCEPT !.order = other_order]
          /\ fitRaises' = TRUE
          /\ forecastRaises' = FALSE
          /\ modelOut' = NoModel
          /\ UNCHANGED <<years, values, steps>>
       \/ \E k \in (1 .. MaxSteps) \ {steps} :
             /\ args' = [args EXCEPT !.steps = k]
             /\ steps' = k
             /\ UNCHANGED <<years, values, fitRaises, forecastRaises, modelOut>>
       \/ /\ \E i \in DOMAIN values : notna(values[i])
          /\ values' = [i \in DOMAIN values |-> NaN]
          /\ args' = [args EXCEPT !.values = values']
          /\ UNCHANGED <<years, steps, fitRaises, forecastRaises, modelOut>>
    /\ pc' = "prepare"
    /\ outcome' = "none"
    /\ path' = "none"
    /\ table' = NoTable
    /\ fitInput' = <<>>
    /\ columns' = <<>>
    /\ UNCHANGED prev
    /\ UNCHANGED <<batchVars, pageVars, topVars, loadVars>>

\* the arguments of the first call are passed once more, at once or after
\* the other call; on equal arguments the library behaves as it did
RepeatCall ==
    /\ pc = "done"
    /\ Len(log) <= 1
    /\ log' = Append(log, finished_call)
    /\ LET first == log'[1]
       IN /\ args' = first.args
          /\ years' = first.args.years
          /\ values' = first.args.values
          /\ steps' = first.args.steps
          /\ fitRaises' = first.library.fitRaises
          /\ forecastRaises' = first.library.forecastRaises
          /\ modelOut' = first.library.modelOut
    /\ pc' = "prepare"
    /\ outcome' = "none"
    /\ path' = "none"
    /\ table' = NoTable
    /\ fitInput' = <<>>
    /\ columns' = <<>>
    /\ UNCHANGED prev
    /\ UNCHANGED <<batchVars, pageVars, topVars, loadVars>>

NextCalls == Prepare \/ Fit \/ Fallback \/ Forecast \/ Assemble \/ OtherCall
                \/ RepeatCall

SpecCalls == InitCalls /\ [][NextCalls]_vars

\* ------------------------------------------------------ generate_forecasts
\* lines 45-53: the arguments, the dataset, the files an earlier run left
InitBatch ==
    /\ years = <<>>
    /\ values = <<>>
    /\ steps = 0
    /\ fitRaises \in BOOLEAN
    /\ forecastRaises = FALSE
    /\ modelOut = NoModel
    /\ pc = "idle"
    /\ outcome = "none"
    /\ path = "none"
    /\ table = NoTable
    /\ prev = NoCall
    /\ fitInput = <<>>
    /\ columns = <<>>
    /\ dataset \in Datasets
    /\ metrics \in RequestLists
    /\ min_points \in 0 .. MaxMinPoints
    /\ run_steps \in {1, MaxSteps}
    /\ files \in {[k \in FileKeys |-> NoFile], [k \in FileKeys |-> StaleFile]}
    /\ bpc = "metric"
    /\ mi = 1
    /\ ci = 0
    /\ out_rows = <<>>
    /\ calls = {}
    /\ returned = {}
    /\ failures = {}
    /\ written = {}
    /\ visited = {}
    /\ PageIdle
    /\ CallsIdle
    /\ TopIdle
    /\ LoadIdle

\* lines 55-57: the next metric starts with an empty list of frames; after
\* the last metric the global forecast follows
BeginMetric ==
    /\ bpc = "metric"
    /\ IF mi <= Len(metrics)
       THEN /\ out_rows' = <<>>
            /\ ci' = 1
            /\ bpc' = "country"
       ELSE /\ bpc' = "global"
            /\ UNCHANGED <<out_rows, ci>>
    /\ UNCHANGED <<dataset, metrics, min_points, run_steps, files, mi,
                   calls, returned, failures, written, visited>>
    /\ UNCHANGED <<engineVars, pageVars, callVars, topVars, loadVars>>

\* variant: the engine call is not wrapped in try/except
ProcessCountry_unguarded ==
    /\ bpc = "country"
    /\ ci <= NumCountries
    /\ LET m == metrics[mi]
           c == countries[ci]
       IN /\ visited' = visited \cup {<<mi, c>>}
          /\ IF ~should_call(dataset, m, c, min_points)
             THEN /\ ci' = ci + 1
                  /\ bpc' = bpc
                  /\ UNCHANGED <<out_rows, calls, returned, failures>>
             ELSE \E o \in EngineOracles(fitRaises), plotOk \in BOOLEAN :
                    LET res == forecast_series(batch_years, dataset[c][m], run_steps, o)
                    IN /\ calls' = calls \cup {[country |-> c, metric |-> m,
                                                steps |-> run_steps, order |-> default_order]}
                       /\ IF res.outcome # "returned"
                          THEN /\ bpc' = "aborted"
                               /\ ci' = ci
                               /\ failures' = failures \cup
                                     {"forecast"}
                               /\ UNCHANGED <<out_rows, returned>>
                          ELSE /\ bpc' = bpc
                               /\ ci' = ci + 1
                               /\ out_rows' = Append(out_rows, attach(res.table, c, m))
                               /\ returned' = returned \cup
                                     {[metric |-> m, country |-> c, table |-> res.table]}
                               /\ failures' = IF plotOk THEN failures
                                              ELSE failures \cup
                                                   {"plot"}
    /\ UNCHANGED <<dataset, metrics, min_points, run_steps, files, mi, written>>
    /\ UNCHANGED <<engineVars, pageVars, callVars, topVars, loadVars>>

\* lines 59-93: one country of one metric: the column, the minimum number of
\* points, the engine call inside try, the identifiers, the plot inside try
ProcessCountry ==
    /\ bpc = "country"
    /\ ci <= NumCountries
    /\ LET m == metrics[mi]
           c == countries[ci]
       IN /\ visited' = visited \cup {<<mi, c>>}
          /\ ci' = ci + 1
          /\ IF ~should_call(dataset, m, c, min_points)
             THEN UNCHANGED <<out_rows, calls, returned, failures>>
             ELSE \E o \in EngineOracles(fitRaises), plotOk \in BOOLEAN :
                    LET res == forecast_series(batch_years, dataset[c][m], run_steps, o)
                    IN /\ calls' = calls \cup {[country |-> c, metric |-> m,
                                                steps |-> run_steps, order |-> default_order]}
                       /\ IF res.outcome # "returned"
                          THEN /\ failures' = failures \cup
                                     {"forecast"}
                               /\ UNCHANGED <<out_rows, returned>>
                          ELSE /\ out_rows' = Append(out_rows, attach(res.table, c, m))
                               /\ returned' = returned \cup
                                     {[metric |-> m, country |-> c, table |-> res.table]}
                               /\ failures' = IF plotOk THEN failures
                                              ELSE failures \cup
                                                   {"plot"}
    /\ UNCHANGED <<dataset, metrics, min_points, run_steps, files, bpc, mi, written>>
    /\ UNCHANGED <<engineVars, pageVars, callVars, topVars, loadVars>>

\* variant: the loop over the countries can be left, and the table written,
\* before the last country
EndMetric_early ==
    /\ bpc = "country"
    /\ ci >= 1
    /\ IF out_rows = <<>>
       THEN UNCHANGED <<files, written>>
       ELSE /\ files' = [files EXCEPT ![metrics[mi]] = [exists |-> TRUE, rows |-> concat(out_rows)]]
            /\ written' = written \cup {<<mi, metrics[mi]>>}
    /\ mi' = mi + 1
    /\ bpc' = "metric"
    /\ UNCHANGED <<dataset, metrics, min_points, run_steps, ci, out_rows,
                   calls, returned, failures, visited>>
    /\ UNCHANGED <<engineVars, pageVars, callVars, topVars, loadVars>>

\* lines 95-103: after the last country, nothing is written when no frame
\* was collected; otherwise the combined table replaces the metric's file
EndMetric ==
    /\ bpc = "country"
    /\ ci > NumCountries
    /\ IF out_rows = <<>>
       THEN UNCHANGED <<files, written>>
       ELSE /\ files' = [files EXCEPT ![metrics[mi]] = [exists |-> TRUE, rows |-> concat(out_rows)]]
            /\ written' = written \cup {<<mi, metrics[mi]>>}
    /\ mi' = mi + 1
    /\ bpc' = "metric"
    /\ UNCHANGED <<dataset, metrics, min_points, run_steps, ci, out_rows,
                   calls, returned, failures, visited>>
    /\ UNCHANGED <<engineVars, pageVars, callVars, topVars, loadVars>>

\* lines 105-138: the global total of co2 by year, forecast under the same
\* minimum number of points and the same horizon; everything inside one try
Global ==
    /\ bpc = "global"
    /\ visited' = visited \cup {<<0, 0>>}
    /\ bpc' = "finished"
    /\ LET gv == global_values(dataset)
       IN IF non_null(gv) >= min_points
          THEN \E o \in EngineOracles(fitRaises), plotOk \in BOOLEAN :
                 LET res == forecast_series(batch_years, gv, run_steps, o)
                 IN /\ calls' = calls \cup {[country |-> 0, metric |-> "co2_global",
                                             steps |-> run_steps, order |-> default_order]}
                    /\ IF res.outcome # "returned"
                       THEN /\ failures' = failures \cup
                                  {"forecast"}
                            /\ UNCHANGED <<files, returned, written>>
                       ELSE /\ files' = [files EXCEPT !["global_co2"] =
                                               [exists |-> TRUE, rows |-> attach_global(res.table)]]
                            /\ written' = written \cup {<<0, "global_co2">>}
                            /\ returned' = returned \cup
                                  {[metric |-> "co2_global", country |-> 0, table |-> res.table]}
                            /\ failures' = IF plotOk THEN failures
                                           ELSE failures \cup
                                                {"plot"}
          ELSE UNCHANGED <<files, calls, returned, failures, written>>
    /\ UNCHANGED <<dataset, metrics, min_points, run_steps, mi, ci, out_rows>>
    /\ UNCHANGED <<engineVars, pageVars, callVars, topVars, loadVars>>

NextBatch == BeginMetric \/ ProcessCountry \/ EndMetric \/ Global

SpecBatch == InitBatch /\ [][NextBatch]_vars

\* the request lists, and a list that names a metric twice
RepeatedLists == RequestLists \cup {<<"gdp", "gdp">>}

\* a run on any of these lists, with no file left by an earlier run
InitBatchLists ==
    /\ years = <<>>
    /\ values = <<>>
    /\ steps = 0
    /\ fitRaises \in BOOLEAN
    /\ forecastRaises = FALSE
    /\ modelOut = NoModel
    /\ pc = "idle"
    /\ outcome = "none"
    /\ path = "none"
    /\ table = NoTable
    /\ prev = NoCall
    /\ fitInput = <<>>
    /\ columns = <<>>
    /\ dataset \in Datasets
    /\ metrics \in RepeatedLists
    /\ min_points \in 0 .. MaxMinPoints
    /\ run_steps \in {1, MaxSteps}
    /\ files = [k \in FileKeys |-> NoFile]
    /\ bpc = "metric"
    /\ mi = 1
    /\ ci = 0
    /\ out_rows = <<>>
    /\ calls = {}
    /\ returned = {}
    /\ failures = {}
    /\ written = {}
    /\ visited = {}
    /\ PageIdle
    /\ CallsIdle
    /\ TopIdle
    /\ LoadIdle

SpecBatchLists == InitBatchLists /\ [][NextBatch]_vars

\* ------------------------------------------------------ render_country_page
\* the page is opened on a dataset, with whatever data/forecasts_co2.csv holds
InitPage ==
    /\ years = <<>>
    /\ values = <<>>
    /\ steps = 0
    /\ fitRaises = FALSE
    /\ forecastRaises = FALSE
    /\ modelOut = NoModel
    /\ pc = "idle"
    /\ outcome = "none"
    /\ path = "none"
    /\ table = NoTable
    /\ prev = NoCall
    /\ fitInput = <<>>
    /\ columns = <<>>
    /\ dataset \in Datasets
    /\ files \in PageFiles(dataset)
    /\ metrics = <<>>
    /\ min_points = 0
    /\ run_steps = 0
    /\ bpc = "idle"
    /\ mi = 0
    /\ ci = 0
    /\ out_rows = <<>>
    /\ calls = {}
    /\ returned = {}
    /\ failures = {}
    /\ written = {}
    /\ visited = {}
    /\ sel_country = 0
    /\ globalRaises \in BOOLEAN
    /\ gdpRaises \in BOOLEAN
    /\ ppc = "top"
    /\ rendered = {}
    /\ messages = {}
    /\ f_country = <<>>
    /\ co2_traces = {}
    /\ CallsIdle
    /\ TopIdle
    /\ LoadIdle

\* lines 16-43: the header, the helper imports, the cumulative plot
RenderTop ==
    /\ ppc = "top"
    /\ rendered' = rendered \cup {"header", "cumulative"}
    /\ ppc' = "global"
    /\ UNCHANGED <<sel_country, globalRaises, gdpRaises, messages, f_country, co2_traces>>
    /\ UNCHANGED <<engineVars, batchVars, callVars, topVars, loadVars>>

\* lines 45-54: the horizon slider and the global CO2 forecast inside try
RenderGlobal ==
    /\ ppc = "global"
    /\ IF global_forecast_plot(globalRaises) = "figure"
       THEN /\ rendered' = rendered \cup {"global forecast"}
            /\ messages' = messages
       ELSE /\ rendered' = rendered
            /\ messages' = messages \cup {"Could not compute global CO2 forecast"}
    /\ ppc' = "select"
    /\ UNCHANGED <<sel_country, globalRaises, gdpRaises, f_country, co2_traces>>
    /\ UNCHANGED <<engineVars, batchVars, callVars, topVars, loadVars>>

\* lines 56-67: the country is chosen among the countries of the dataset
SelectCountry ==
    /\ ppc = "select"
    /\ \E c \in Range(countries) : sel_country' = c
    /\ ppc' = "co2"
    /\ UNCHANGED <<globalRaises, gdpRaises, rendered, messages, f_country, co2_traces>>
    /\ UNCHANGED <<engineVars, batchVars, callVars, topVars, loadVars>>

\* variant: the forecast line and its band are drawn as soon as the lookup
\* finds a row
RenderCo2_any_row ==
    /\ ppc = "co2"
    /\ LET found == IF files["co2"].exists
                    THEN lookup(read_csv(to_csv(files["co2"].rows)), sel_country)
                    ELSE <<>>
           overlay == found # <<>>
       IN /\ f_country' = found
          /\ co2_traces' = {"Observed CO2 (Mt)"} \cup
                           (IF overlay THEN {"Forecast CO2", "Forecast 95% CI"} ELSE {})
    /\ rendered' = rendered \cup {"co2 chart"}
    /\ ppc' = "gdp"
    /\ UNCHANGED <<sel_country, globalRaises, gdpRaises, messages>>
    /\ UNCHANGED <<engineVars, batchVars, callVars, topVars, loadVars>>

\* lines 69-92: the observed CO2 line, the lookup in the precomputed file
\* as read back from its CSV text (a missing file gives an empty lookup),
\* the forecast line and its band
RenderCo2 ==
    /\ ppc = "co2"
    /\ LET found == IF files["co2"].exists
                    THEN lookup(read_csv(to_csv(files["co2"].rows)), sel_country)
                    ELSE <<>>
           overlay == found # <<>> /\ \E r \in DOMAIN found : notna(found[r].y_pred)
       IN /\ f_country' = found
          /\ co2_traces' = {"Observed CO2 (Mt)"} \cup
                           (IF overlay THEN {"Forecast CO2", "Forecast 95% CI"} ELSE {})
    /\ rendered' = rendered \cup {"co2 chart"}
    /\ ppc' = "gdp"
    /\ UNCHANGED <<sel_country, globalRaises, gdpRaises, messages>>
    /\ UNCHANGED <<engineVars, batchVars, callVars, topVars, loadVars>>

\* lines 94-101: the GDP forecast of the country inside try
RenderGdp ==
    /\ ppc = "gdp"
    /\ IF \E i \in DOMAIN dataset[sel_country]["gdp"] : notna(dataset[sel_country]["gdp"][i])
       THEN IF country_gdp_forecast_plot(gdpRaises) = "figure"
            THEN /\ rendered' = rendered \cup {"gdp forecast"}
                 /\ messages' = messages
            ELSE /\ rendered' = rendered
                 /\ messages' = messages \cup {"Could not compute GDP forecast"}
       ELSE UNCHANGED <<rendered, messages>>
    /\ ppc' = "history"
    /\ UNCHANGED <<sel_country, globalRaises, gdpRaises, f_country, co2_traces>>
    /\ UNCHANGED <<engineVars, batchVars, callVars, topVars, loadVars>>

\* lines 103-125: CO2 per capita, population, the historical table, download
RenderHistory ==
    /\ ppc = "history"
    /\ rendered' = rendered \cup {"co2 per capita chart", "population chart",
                                  "historical table", "download"}
    /\ ppc' = "done"
    /\ UNCHANGED <<sel_country, globalRaises, gdpRaises, messages, f_country, co2_traces>>
    /\ UNCHANGED <<engineVars, batchVars, callVars, topVars, loadVars>>

NextPage == RenderTop \/ RenderGlobal \/ SelectCountry \/ RenderCo2 \/ RenderGdp
               \/ RenderHistory

SpecPage == InitPage /\ [][NextPage]_vars

\* ---------------------------------------------------- top10_by_co2_metric
\* the chart is asked for on a frame, with years, continents and a metric
InitTop10 ==
    /\ years = <<>>
    /\ values = <<>>
    /\ steps = 0
    /\ fitRaises = FALSE
    /\ forecastRaises = FALSE
    /\ modelOut = NoModel
    /\ pc = "idle"
    /\ outcome = "none"
    /\ path = "none"
    /\ table = NoTable
    /\ prev = NoCall
    /\ fitInput = <<>>
    /\ columns = <<>>
    /\ BatchIdle
    /\ PageIdle
    /\ CallsIdle
    /\ LoadIdle
    /\ top_df \in TopFrames
    /\ top_years \in YearArgs
    /\ continent_filter \in {{}, {"Asia"}}
    /\ top_metric \in {"co2", "co2_per_capita", "population", "energy"}
    /\ tpc = "call"
    /\ fig = NoFigure

\* viz_top10.py lines 126-199
BuildTop10 ==
    /\ tpc = "call"
    /\ fig' = top10_by_co2_metric(top_df, top_years, continent_filter, top_metric)
    /\ tpc' = "done"
    /\ UNCHANGED <<top_df, top_years, continent_filter, top_metric>>
    /\ UNCHANGED <<engineVars, batchVars, pageVars, callVars, loadVars>>

NextTop10 == BuildTop10

SpecTop10 == InitTop10 /\ [][NextTop10]_vars

\* ---------------------------------------------------------------- load_data
\* the two files as they are read
InitLoad ==
    /\ years = <<>>
    /\ values = <<>>
    /\ steps = 0
    /\ fitRaises = FALSE
    /\ forecastRaises = FALSE
    /\ modelOut = NoModel
    /\ pc = "idle"
    /\ outcome = "none"
    /\ path = "none"
    /\ table = NoTable
    /\ prev = NoCall
    /\ fitInput = <<>>
    /\ columns = <<>>
    /\ BatchIdle
    /\ PageIdle
    /\ CallsIdle
    /\ TopIdle
    /\ \E n \in 0 .. MaxRows : owid \in [1 .. n -> OwidRows]
    /\ \E n \in 0 .. MaxMapRows : mapping \in [1 .. n -> MapRows]
    /\ lpc = "call"
    /\ merged = <<>>

\* data_loader.py lines 11-57
LoadData ==
    /\ lpc = "call"
    /\ merged' = load_data(owid, mapping)
    /\ lpc' = "done"
    /\ UNCHANGED <<owid, mapping>>
    /\ UNCHANGED <<engineVars, batchVars, pageVars, callVars, topVars>>

NextLoad == LoadData

SpecLoad == InitLoad /\ [][NextLoad]_vars

\* -------------------------------------------- from the batch to the page
\* a run that is asked for the CO2 forecasts, with no file left by an earlier
\* run, under the smallest or the largest minimum number of points
InitRoundTrip ==
    /\ InitBatch
    /\ \E i \in DOMAIN metrics : metrics[i] = "co2"
    /\ files = [k \in FileKeys |-> NoFile]
    /\ min_points \in {0, MaxMinPoints}

\* the page is opened after the run, on the run's dataset and files; the two
\* on-demand forecasts succeed
OpenPage ==
    /\ bpc = "finished"
    /\ ppc = "idle"
    /\ ppc' = "top"
    /\ UNCHANGED <<sel_country, globalRaises, gdpRaises, rendered, messages,
                   f_country, co2_traces>>
    /\ UNCHANGED <<engineVars, batchVars, callVars, topVars, loadVars>>

NextRoundTrip == NextBatch \/ OpenPage \/ NextPage

SpecRoundTrip == InitRoundTrip /\ [][NextRoundTrip]_vars

\* ------------------------------------------------- vocabulary of the claims
Done == pc = "done"
Returned == pc = "done" /\ outcome = "returned"
AllMissing == \A i \in DOMAIN values : values[i] = NaN
ObservedIdx == {i \in DOMAIN values : values[i] # NaN}
ObservedYears == {years[i] : i \in ObservedIdx}
LastObserved == CHOOSE m \in ObservedYears : \A x \in ObservedYears : x <= m
Horizon == {LastObserved + h : h \in 1 .. steps}
ForecastRows == {r \in DOMAIN table : table[r].y_pred # NaN}
TrailingMissing == \E i \in DOMAIN years : values[i] = NaN /\ years[i] > LastObserved

RECURSIVE SumOver(_)
SumOver(S) == IF S = {} THEN 0
              ELSE LET i == CHOOSE i \in S : TRUE
                   IN values[i][1] + SumOver(S \ {i})
HistSum == SumOver(ObservedIdx)
HistCount == Cardinality(ObservedIdx)

\* C1: the no-data error is raised if and only if every input value is
\* missing (the empty input included), and when it is raised no table, not
\* even a partial one, is returned.
C1_NoDataIffAllMissing ==
    /\ Done => ((outcome = "NoDataError") <=> AllMissing)
    /\ (outcome = "NoDataError") => (AllMissing /\ table = NoTable /\ path = "none")
    /\ (~AllMissing) => (outcome # "NoDataError")

C1_Witness == Done /\ outcome = "NoDataError" /\ Len(values) = MaxLen

\* C2: the persistence fallback is taken exactly when model construction or
\* fitting raises; the exception never reaches the caller and a table is
\* returned; when construction and fitting raise nothing, the forecast
\* columns of a returned table are the fitted model's numbers.
C2_FallbackIffFitRaises ==
    (Done /\ ~AllMissing) =>
        /\ fitRaises => (outcome = "returned" /\ path = "fallback")
        /\ (path = "fallback") => fitRaises
        /\ (~fitRaises /\ outcome = "returned") =>
              /\ path = "model"
              /\ \A h \in 1 .. steps :
                    \E r \in DOMAIN table :
                       /\ table[r].year = LastObserved + h
                       /\ <<table[r].y_pred, table[r].y_lower, table[r].y_upper>> = modelOut[h]

C2_Witness == Returned /\ fitRaises /\ path = "fallback" /\ prev.path = "fallback"

\* C3 (as claimed): every input with a non-missing value and steps >= 1
\* yields a table; no error other than the no-data error leaves the engine.
C3_OnlyNoDataErrorEscapes ==
    (Done /\ ~AllMissing) => outcome = "returned"

\* C4: the (year, y) pairs of the result rows with a non-null y are exactly
\* the input (year, value) pairs with a non-missing value.
C4_HistoryReproduced ==
    Returned =>
        {<<table[r].year, table[r].y>> : r \in {q \in DOMAIN table : table[q].y # NaN}}
          = {<<years[i], values[i]>> : i \in ObservedIdx}

C4_Witness ==
    /\ Returned /\ path = "model"
    /\ Len(years) = MaxLen
    /\ \E i \in DOMAIN values : values[i] = NaN
    /\ \E i, j \in DOMAIN years : i < j /\ years[i] > years[j]

\* C5: the years of the rows carrying a point forecast are exactly
\* last_year+1 .. last_year+steps, last_year being the largest year with a
\* non-missing value, whatever the gaps between historical years.
C5_HorizonAfterLastObserved ==
    Returned =>
        /\ {table[r].year : r \in ForecastRows} = Horizon
        /\ Cardinality(ForecastRows) = steps

C5_Witness ==
    /\ Returned /\ steps = MaxSteps
    /\ \E y \in YearPool : y < LastObserved /\ y \notin Range(years)
    /\ TrailingMissing

\* C6: in no row of a returned table are y and y_pred both non-null.
C6_ObservedXorForecast ==
    Returned => \A r \in DOMAIN table : table[r].y = NaN \/ table[r].y_pred = NaN

C6_Witness ==
    /\ Returned /\ ForecastRows # {}
    /\ \E r \in DOMAIN table : table[r].y # NaN
    /\ TrailingMissing

\* C7: on the fallback path every forecast year has the mean of the
\* non-missing historical values as point forecast, and
\* lower <= point forecast <= upper, whatever the sign of the mean.
C7_FallbackFlatAndOrdered ==
    (Returned /\ path = "fallback") =>
        \A r \in DOMAIN table :
            table[r].year \in Horizon =>
                /\ RatEq(table[r].y_pred, <<HistSum, HistCount>>)
                /\ RatLe(table[r].y_lower, table[r].y_pred)
                /\ RatLe(table[r].y_pred, table[r].y_upper)

C7_Witness ==
    /\ Returned /\ path = "fallback" /\ HistSum < 0 /\ HistCount > 1
    /\ prev.path = "fallback"

\* C8: on the fallback path the bounds are mean - 0.1*|mean| and
\* mean + 0.1*|mean| with the mean taken over the non-missing values only;
\* years [2000,2001,2002], values [5, missing, 5], steps 2 gives 5.0 with
\* bounds [4.5, 5.5] for 2003 and 2004.
C8_FallbackBounds ==
    (Returned /\ path = "fallback") =>
        /\ \A r \in DOMAIN table :
              table[r].year \in Horizon =>
                 /\ RatEq(table[r].y_lower, <<10 * HistSum - Abs(HistSum), 10 * HistCount>>)
                 /\ RatEq(table[r].y_upper, <<10 * HistSum + Abs(HistSum), 10 * HistCount>>)
        /\ (years = <<2000, 2001, 2002>> /\ values = <<Num(5), NaN, Num(5)>> /\ steps = 2) =>
              /\ Len(table) = 5
              /\ \A r \in 4 .. 5 :
                    /\ table[r].year = 1999 + r
                    /\ table[r].y = NaN
                    /\ RatEq(table[r].y_pred, Num(5))
                    /\ RatEq(table[r].y_lower, <<45, 10>>)
                    /\ RatEq(table[r].y_upper, <<55, 10>>)

C8_Witness ==
    /\ Returned /\ path = "fallback"
    /\ years = <<2000, 2001, 2002>> /\ values = <<Num(5), NaN, Num(5)>> /\ steps = 2

\* C9 (as claimed): the table for steps = k+1 extends the table for steps = k
\* on the same data: every row of the k-table appears unchanged (year,
\* observed value, point forecast) and exactly one forecast year,
\* last_year+k+1, is added.
C9_HorizonExtends ==
    (Returned /\ prev.outcome = "returned" /\ prev.steps + 1 = steps) =>
        /\ \A q \in DOMAIN prev.table :
              \E r \in DOMAIN table :
                 /\ table[r].year = prev.table[q].year
                 /\ table[r].y = prev.table[q].y
                 /\ table[r].y_pred = prev.table[q].y_pred
        /\ {table[r].year : r \in ForecastRows}
             = {prev.table[q].year : q \in {p \in DOMAIN prev.table : prev.table[p].y_pred # NaN}}
                 \cup {LastObserved + steps}

\* C10 (as claimed): no forecast year is a year of the input, so a returned
\* table has (number of distinct input years + steps) rows.
C10_ForecastYearsAreNew ==
    Returned =>
        /\ {table[r].year : r \in ForecastRows} \cap Range(years) = {}
        /\ Len(table) = Cardinality(Range(years)) + steps

\* ------------------------------------------------------------ C11 - C13
RowHistorical(row) ==
    row.y # NaN /\ row.y_pred = NaN /\ row.y_lower = NaN /\ row.y_upper = NaN
RowForecast(row) ==
    row.y = NaN /\ row.y_pred # NaN /\ row.y_lower # NaN /\ row.y_upper # NaN
RowEmpty(row) ==
    row.y = NaN /\ row.y_pred = NaN /\ row.y_lower = NaN /\ row.y_upper = NaN
MissingYears == {years[i] : i \in {j \in DOMAIN values : values[j] = NaN}}

\* C11 (as claimed): every row of a returned table is a historical row
\* (y populated, the three forecast columns null) or a forecast row (y null,
\* the three forecast columns populated); no row has all four value columns
\* null and none has only some forecast columns populated.
C11_TwoKindsOfRow ==
    Returned => \A r \in DOMAIN table : RowHistorical(table[r]) \/ RowForecast(table[r])

\* C11 (amended): every row of a returned table is a historical row, a
\* forecast row, or a row with all four value columns null; the all-null
\* rows are exactly the input years whose value is missing and that lie
\* outside the forecast horizon; no row has only some forecast columns
\* populated.
C11_ThreeKindsOfRow ==
    Returned =>
        /\ \A r \in DOMAIN table :
              RowHistorical(table[r]) \/ RowForecast(table[r]) \/ RowEmpty(table[r])
        /\ {table[r].year : r \in {q \in DOMAIN table : RowEmpty(table[q])}}
             = MissingYears \ Horizon

C11_Witness ==
    /\ Returned
    /\ \E r \in DOMAIN table : RowEmpty(table[r])
    /\ \E r \in DOMAIN table : RowHistorical(table[r])
    /\ \E r \in DOMAIN table : RowForecast(table[r]) /\ table[r].year \in MissingYears

\* C12: input entries whose value is missing are never handed to model
\* fitting nor counted in the fallback mean, yet each such input year appears
\* in the returned table as a row whose observed value is null.
C12_MissingExcludedButShown ==
    /\ (pc \in {"fallback", "forecast", "assemble"} \/ (Done /\ ~AllMissing)) =>
          /\ \A i \in DOMAIN fitInput : fitInput[i][2] # NaN
          /\ Range(fitInput) = {<<years[i], values[i]>> : i \in ObservedIdx}
          /\ Len(fitInput) = HistCount
    /\ (Returned /\ path = "fallback") =>
          \A r \in ForecastRows : table[r].y_pred[2] = HistCount
    /\ Returned =>
          \A yr \in MissingYears :
             \E r \in DOMAIN table : table[r].year = yr /\ table[r].y = NaN

C12_Witness ==
    /\ Returned /\ path = "fallback"
    /\ MissingYears # {} /\ HistCount > 1
    /\ \E yr \in MissingYears : yr < LastObserved

\* C13: for one and the same input the table of the fallback path and the
\* table of the model path have the same columns in the same order, the same
\* years in the same row order, the same observed column and the same
\* null/non-null pattern in the three forecast columns.
C13_PathsStructurallyIdentical ==
    (Returned /\ prev.outcome = "returned" /\ prev.path # path /\ prev.steps = steps) =>
        /\ columns = prev.columns
        /\ columns = <<"year", "y", "y_pred", "y_lower", "y_upper">>
        /\ Len(table) = Len(prev.table)
        /\ \A r \in DOMAIN table :
              /\ table[r].year = prev.table[r].year
              /\ table[r].y = prev.table[r].y
              /\ (table[r].y_pred = NaN) <=> (prev.table[r].y_pred = NaN)
              /\ (table[r].y_lower = NaN) <=> (prev.table[r].y_lower = NaN)
              /\ (table[r].y_upper = NaN) <=> (prev.table[r].y_upper = NaN)

C13_Witness ==
    /\ Returned /\ path = "fallback" /\ prev.path = "model" /\ prev.steps = steps
    /\ MissingYears # {}
    /\ Len(table) > steps + 1

\* ------------------------------------------------------------ C14 - C19
BatchFinished == bpc = "finished"
RunPairs == {<<i, c>> : i \in DOMAIN metrics, c \in 1 .. NumCountries}
GlobalPair == <<0, 0>>
PointCount(c, m) ==
    IF m \in DataMetrics
    THEN Cardinality({i \in DOMAIN dataset[c][m] : dataset[c][m][i] # NaN})
    ELSE 0
EntityCall(c, m) == [country |-> c, metric |-> m, steps |-> run_steps, order |-> <<1, 1, 1>>]
GlobalCall == [country |-> 0, metric |-> "co2_global", steps |-> run_steps,
               order |-> <<1, 1, 1>>]
FileRows(k) == {files[k].rows[r] : r \in DOMAIN files[k].rows}
MetricFilesWritten == {w \in written : w[1] >= 1}

\* C14: a failure while handling one entity (the forecast raising, the plot
\* failing) never aborts the run: every remaining entity, every remaining
\* metric and the global forecast are still processed and the run ends
\* without raising.
C14_FailureNeverAborts ==
    /\ bpc \in {"metric", "country", "global", "finished"}
    /\ bpc = "metric" => mi \in 1 .. Len(metrics) + 1
    /\ bpc = "country" => (mi \in DOMAIN metrics /\ ci \in 1 .. NumCountries + 1)
    /\ bpc = "global" => mi = Len(metrics) + 1
    /\ BatchFinished => visited = RunPairs \cup {GlobalPair}

C14_Witness ==
    /\ BatchFinished
    /\ failures = {"forecast", "plot"}
    /\ Cardinality(returned) >= 2
    /\ Cardinality(calls) > Cardinality(returned) + 1

\* C15 (as claimed): the engine is invoked for an (entity, metric) pair if
\* and only if the metric has at least min_points non-missing values for
\* that entity; a pair below the threshold contributes no rows; every engine
\* call uses the run's horizon and the default order (1,1,1).
C15_CalledIffEnoughPoints ==
    BatchFinished =>
        /\ \A p \in RunPairs :
              (EntityCall(p[2], metrics[p[1]]) \in calls)
                 <=> (PointCount(p[2], metrics[p[1]]) >= min_points)
        /\ \A p \in RunPairs :
              (PointCount(p[2], metrics[p[1]]) < min_points) =>
                 \A w \in MetricFilesWritten :
                    \A row \in FileRows(w[2]) :
                       ~(row.country = p[2] /\ row.metric = metrics[p[1]])
        /\ \A call \in calls : call.steps = run_steps /\ call.order = <<1, 1, 1>>

\* C15 (amended): the engine is invoked for an (entity, metric) pair if and
\* only if the metric is a column of the dataset and has at least min_points
\* non-missing values for that entity; a pair for which it is not invoked
\* contributes no rows; every engine call uses the run's horizon and the
\* default order (1,1,1).
C15_CalledIffColumnAndEnoughPoints ==
    BatchFinished =>
        /\ \A p \in RunPairs :
              (EntityCall(p[2], metrics[p[1]]) \in calls)
                 <=> (/\ metrics[p[1]] \in DataMetrics
                      /\ PointCount(p[2], metrics[p[1]]) >= min_points)
        /\ \A p \in RunPairs :
              (EntityCall(p[2], metrics[p[1]]) \notin calls) =>
                 \A w \in MetricFilesWritten :
                    \A row \in FileRows(w[2]) :
                       ~(row.country = p[2] /\ row.metric = metrics[p[1]])
        /\ \A call \in calls : call.steps = run_steps /\ call.order = <<1, 1, 1>>

C15_Witness ==
    /\ BatchFinished
    /\ min_points = 0
    /\ \E p \in RunPairs : metrics[p[1]] \notin DataMetrics
    /\ \E p \in RunPairs : EntityCall(p[2], metrics[p[1]]) \in calls
    /\ run_steps = MaxSteps

\* C16: the combined table persisted for a metric holds the rows of exactly
\* the entities whose engine call returned a result in this run (an entity
\* whose plot failed included), each row with the entity's name, its code and
\* the metric name.
C16_CombinedTableOfSuccesses ==
    \A w \in MetricFilesWritten :
        FileRows(w[2]) =
            UNION {{[year |-> e.table[r].year, y |-> e.table[r].y,
                     y_pred |-> e.table[r].y_pred, y_lower |-> e.table[r].y_lower,
                     y_upper |-> e.table[r].y_upper,
                     country |-> e.country, iso_code |-> <<"iso", e.country>>,
                     metric |-> w[2]] : r \in DOMAIN e.table} :
                   e \in {x \in returned : x.metric = w[2]}}

C16_Witness ==
    /\ BatchFinished
    /\ failures = {"forecast", "plot"}
    /\ \E w \in MetricFilesWritten :
          /\ \E row \in FileRows(w[2]) : row.country = 2
          /\ \A row \in FileRows(w[2]) : row.country = 2
          /\ PointCount(1, w[2]) >= min_points

\* C17: in every persisted table no two rows share entity, metric and year.
C17_OneRowPerEntityMetricYear ==
    /\ \A k \in FileKeys \ {"global_co2"} :
          \A r1, r2 \in DOMAIN files[k].rows :
             (/\ files[k].rows[r1].country = files[k].rows[r2].country
              /\ files[k].rows[r1].metric = files[k].rows[r2].metric
              /\ files[k].rows[r1].year = files[k].rows[r2].year) => r1 = r2
    /\ \A r1, r2 \in DOMAIN files["global_co2"].rows :
          (/\ files["global_co2"].rows[r1].metric = files["global_co2"].rows[r2].metric
           /\ files["global_co2"].rows[r1].year = files["global_co2"].rows[r2].year) => r1 = r2

C17_Witness ==
    /\ BatchFinished
    /\ <<0, "global_co2">> \in written
    /\ \E w \in MetricFilesWritten :
          /\ \E row \in FileRows(w[2]) : row.country = 1
          /\ \E row \in FileRows(w[2]) : row.country = 2
          /\ \E row \in FileRows(w[2]) : row.y = NaN /\ row.y_pred # NaN /\ row.year = FirstYear + 1

RECURSIVE Co2Total(_, _)
Co2Total(S, i) ==
    IF S = {} THEN 0
    ELSE LET c == CHOOSE c \in S : TRUE
         IN (IF dataset[c]["co2"][i] # NaN THEN dataset[c]["co2"][i][1] ELSE 0)
              + Co2Total(S \ {c}, i)

\* C18: the run also forecasts one global series, the per-year sum of co2
\* across all entities, under the same minimum-points rule, the same horizon
\* and the same engine, and stores it under an identifier that no per-entity
\* result carries.
C18_GlobalAggregate ==
    BatchFinished =>
        /\ (GlobalCall \in calls) <=> (Len(batch_years) >= min_points)
        /\ \A call \in calls : call.steps = run_steps
        /\ (<<0, "global_co2">> \in written) =>
              /\ \A i \in DOMAIN batch_years :
                    \E row \in FileRows("global_co2") :
                       /\ row.year = batch_years[i]
                       /\ row.y = Num(Co2Total(1 .. NumCountries, i))
              /\ Cardinality({row \in FileRows("global_co2") : row.y_pred # NaN}) = run_steps
              /\ \A row \in FileRows("global_co2") : row.metric = "co2_global"
              /\ \A w \in MetricFilesWritten :
                    /\ w[2] # "global_co2"
                    /\ \A row \in FileRows(w[2]) : row.metric # "co2_global"

C18_Witness ==
    /\ BatchFinished
    /\ <<0, "global_co2">> \in written
    /\ MetricFilesWritten # {}
    /\ \E c \in 1 .. NumCountries : dataset[c]["co2"][2] = NaN
    /\ \E c \in 1 .. NumCountries : dataset[c]["co2"][2] # NaN

\* C19 (as claimed): after a completed run the persisted table of each
\* requested metric holds only results computed in that run, whatever
\* earlier runs had written, also when the run produced no successful
\* forecast for that metric.
C19_NoLeftOver ==
    BatchFinished =>
        \A i \in DOMAIN metrics :
           files[metrics[i]].exists => <<i, metrics[i]>> \in written

\* ------------------------------------------------------------------ C20
PageDone == ppc = "done"
PrecomputedMissing ==
    \/ ~files["co2"].exists
    \/ \A r \in DOMAIN files["co2"].rows : files["co2"].rows[r].country # sel_country

\* C20 (as claimed): the forecast never aborts the time-series page: with the
\* precomputed file missing, with no row for the selected country, and with
\* an on-demand forecast raising, the page still shows the country's
\* historical charts and table, and the missing forecast is reported to the
\* user as a non-fatal state.
C20_PageSurvivesAndReports ==
    PageDone =>
          /\ {"co2 chart", "co2 per capita chart", "population chart",
              "historical table"} \subseteq rendered
          /\ "Observed CO2 (Mt)" \in co2_traces
          /\ globalRaises => "Could not compute global CO2 forecast" \in messages
          /\ gdpRaises => "Could not compute GDP forecast" \in messages
          /\ PrecomputedMissing => messages \ {"Could not compute global CO2 forecast",
                                               "Could not compute GDP forecast"} # {}

TopDone == tpc = "done"
SelectedRows == df_sel(top_df, top_years, continent_filter)
SelectedCountries == {c \in DOMAIN top_df :
                         \E i \in DOMAIN batch_years : <<c, i>> \in SelectedRows}
Co2Of(c) == agg_sum(top_df, SelectedRows, c, "co2")
\* the (at most 10) countries with the highest aggregated CO2
TopByCo2 == {c \in SelectedCountries :
                Cardinality({x \in SelectedCountries : Co2Of(x) > Co2Of(c)}) < TopN}

\* C23 (as claimed): whichever metric is requested for the bars, the
\* countries of the chart are the (at most 10) countries with the highest
\* aggregated CO2 over the selected years and continents.
C23_AlwaysRankedByCo2 ==
    TopDone => Range(fig.countries) = TopByCo2

\* ------------------------------------------------------------------ C24
LoadDone == lpc = "done"
DuplicateCode == \E i, j \in DOMAIN mapping :
                    /\ i # j
                    /\ mapping[i].three_letter_code = mapping[j].three_letter_code

\* C24: load_data never duplicates a row of the emissions dataset, whatever
\* the mapping file lists: a row of the dataset appears at most once in the
\* output, the output has no more rows than the dataset, and two output rows
\* of the same (country, year) come from two dataset rows of that pair.
C24_NoRowDuplicated ==
    LoadDone =>
       /\ \A i, j \in DOMAIN merged : merged[i].row = merged[j].row => i = j
       /\ Len(merged) <= Len(owid)
       /\ \A i, j \in DOMAIN merged :
             (i # j /\ merged[i].country = merged[j].country
                    /\ merged[i].year = merged[j].year)
             => \E a, b \in DOMAIN owid :
                   /\ a # b
                   /\ owid[a].country = owid[b].country
                   /\ owid[a].year = owid[b].year

\* a code listed twice with two continents, and a kept row of that code
C24_Witness ==
    /\ LoadDone
    /\ \E i, j \in DOMAIN mapping :
          /\ i # j
          /\ mapping[i].three_letter_code = mapping[j].three_letter_code
          /\ mapping[i].continent_name # mapping[j].continent_name
          /\ \E r \in DOMAIN merged : merged[r].iso_code = mapping[i].three_letter_code
    /\ Len(merged) = Len(owid)
    /\ Len(owid) >= 2

\* ------------------------------------------------------------------ C25
\* C25 (as claimed): every returned row has a non-missing, non-empty
\* iso_code, a numeric year within 2000..2022 and a non-null continent_name,
\* 'Other' when the code has no mapping; for an ISO code of the override list
\* the continent_name is the override value whatever the mapping file says.
C25_RowsWellFormedAndOverridden ==
    LoadDone =>
       \A r \in DOMAIN merged :
          /\ merged[r].iso_code \notin {"", NA}
          /\ notna(merged[r].year)
          /\ FirstYear <= merged[r].year[1] /\ merged[r].year[1] <= LastYear
          /\ merged[r].continent_name # NA
          /\ merged[r].iso_code \in DOMAIN OVERRIDES
                => merged[r].continent_name = OVERRIDES[merged[r].iso_code]
          /\ (merged[r].iso_code \notin DOMAIN OVERRIDES /\
              \A i \in DOMAIN mapping : mapping[i].three_letter_code # merged[r].iso_code)
                => merged[r].continent_name = "Other"

\* ------------------------------------------------------------------ C26
\* C26: for unique input years in any order, the rows of a returned table
\* are in strictly ascending year order, no year twice, on the model path and
\* on the fallback path, and every row with an observed value comes before
\* every row with a point forecast.
C26_RowsAscending ==
    Returned =>
       /\ \A r1, r2 \in DOMAIN table : r1 < r2 => table[r1].year < table[r2].year
       /\ \A h, f \in DOMAIN table :
             (RowHistorical(table[h]) /\ RowForecast(table[f])) => h < f

\* an input given in descending year order with a gap and a missing value,
\* answered on the model path
C26_Witness ==
    /\ Returned
    /\ path = "model"
    /\ Len(years) >= 2
    /\ \A i, j \in DOMAIN years : i < j => years[i] > years[j]
    /\ \E i \in DOMAIN values : isna(values[i])
    /\ \E r \in DOMAIN table : RowHistorical(table[r])
    /\ \E r \in DOMAIN table : RowForecast(table[r])

\* ------------------------------------------------------------------ C27
\* the values handed to the engine by a recorded call
CallValues(call) == IF call.country = 0 THEN global_values(dataset)
                    ELSE dataset[call.country][call.metric]

\* C27: in a run with min_points >= 1 the engine is never invoked on a
\* series whose values are all missing, per entity and for the global total,
\* so no engine call of the run can end in the no-data error.
C27_NoDataUnreachableInBatch ==
    min_points >= 1 =>
       \A call \in calls :
          /\ \E i \in DOMAIN CallValues(call) : notna(CallValues(call)[i])
          /\ \A o \in EngineOracles(fitRaises) :
                forecast_series(batch_years, CallValues(call), call.steps, o).outcome
                   # "NoDataError"

\* a finished run with min_points >= 1 over a dataset in which a country has
\* no CO2 value at all: that country is passed over, others are forecast
C27_Witness ==
    /\ BatchFinished
    /\ min_points >= 1
    /\ \E i \in DOMAIN metrics : metrics[i] = "co2"
    /\ \E c \in 1 .. NumCountries : PointCount(c, "co2") = 0
    /\ \E c \in 1 .. NumCountries : EntityCall(c, "co2") \in calls
    /\ GlobalCall \in calls

\* ------------------------------------------------------------------ C28
LookedUp == "co2 chart" \in rendered
CellSame(a, b) == (isna(a) /\ isna(b)) \/ RatEq(a, b)
RowSame(a, b) ==
    /\ a.year = b.year
    /\ CellSame(a.y, b.y)
    /\ CellSame(a.y_pred, b.y_pred)
    /\ CellSame(a.y_lower, b.y_lower)
    /\ CellSame(a.y_upper, b.y_upper)
    /\ a.country = b.country
    /\ a.iso_code = b.iso_code
    /\ a.metric = b.metric

WritesOf(k) == {w \in written : w[2] = k}
PassDone(i) == \A c \in 1 .. NumCountries : <<i, c>> \in visited
GlobalStarted == <<0, 0>> \in visited \/ GlobalCall \in calls
                    \/ <<0, "global_co2">> \in written

\* the order of the work: a table is written only by the pass of its metric
\* and only after every country of that pass; the passes follow the
\* requested order, the countries their order within a pass; the global
\* forecast comes after the last pass
OrderOfPersistence ==
    /\ \A w \in MetricFilesWritten :
          /\ w[1] \in DOMAIN metrics /\ metrics[w[1]] = w[2]
          /\ PassDone(w[1])
          /\ w[1] < mi
    /\ \A v \in visited :
          v[1] >= 1 => /\ \A j \in 1 .. (v[1] - 1) : PassDone(j)
                       /\ \A c \in 1 .. (v[2] - 1) : <<v[1], c>> \in visited
                       /\ v[1] <= mi
    /\ GlobalStarted => /\ \A i \in DOMAIN metrics : PassDone(i)
                        /\ mi = Len(metrics) + 1
                        /\ bpc = "finished"

\* C29 (as claimed): the table of a metric is written at most once per run,
\* only after every entity has been processed for that metric; the metrics
\* are handled in the requested order and the global forecast comes last.
C29_WrittenOncePerRun ==
    /\ \A k \in FileKeys : Cardinality(WritesOf(k)) <= 1
    /\ OrderOfPersistence

\* C29 (amended): the table of a metric is written at most once for each
\* occurrence of the metric in the requested list, only after every entity
\* has been processed in that pass; the passes follow the requested order
\* and the global forecast comes after the last pass.
C29_WrittenOncePerPass ==
    /\ \A k \in FileKeys :
          Cardinality(WritesOf(k)) <= Cardinality({i \in DOMAIN metrics : metrics[i] = k} \cup
                                                  (IF k = "global_co2" THEN {0} ELSE {}))
    /\ OrderOfPersistence

\* a finished run that wrote the tables of two different metrics and the
\* global table
C29_Witness ==
    /\ BatchFinished
    /\ Len(metrics) = 2
    /\ metrics[1] # metrics[2]
    /\ <<1, metrics[1]>> \in written
    /\ <<2, metrics[2]>> \in written
    /\ <<0, "global_co2">> \in written

\* ------------------------------------------------------------------ C30
HasForecastFor(c) ==
    /\ files["co2"].exists
    /\ \E row \in FileRows("co2") :
          row.country = c /\ row.metric = "co2" /\ notna(row.y_pred)

\* C30: the CO2 forecast overlay is drawn for the selected country if and
\* only if the precomputed table exists and holds, for that country and
\* metric 'co2', a row with a non-null point forecast; the confidence band is
\* drawn only together with the forecast line; the observed CO2 line is drawn
\* in every case.
C30_OverlayIffForecastRow ==
    LookedUp =>
       /\ ("Forecast CO2" \in co2_traces) <=> HasForecastFor(sel_country)
       /\ ("Forecast 95% CI" \in co2_traces) => ("Forecast CO2" \in co2_traces)
       /\ "Observed CO2 (Mt)" \in co2_traces

\* the file holds rows of the selected country without any point forecast
\* and no overlay is drawn
C30_Witness ==
    /\ LookedUp
    /\ files["co2"].exists
    /\ f_country # <<>>
    /\ ~HasForecastFor(sel_country)
    /\ co2_traces = {"Observed CO2 (Mt)"}

====
